---- MODULE Spec2Model ----
(***************************************************************************)
(* Model of the GitHub auth provider bootstrap (main.go, func main) and of *)
(* the "Workspace Files" instruction script that follows it in the file.   *)
(* Strings are TLA+ strings; Go's strings/base64/ServeMux functions are    *)
(* operators that compute what the library computes.                       *)
(***************************************************************************)
EXTENDS Integers, Sequences, FiniteSets, TLC

VARIABLES env, pc, opts, cookieSecret, legacyOpts, oauthProxyOpts, port,
          stdout, exitCode, listenAddr, req, trace, serveErr,
          ctx, FILES, spc, out

mainVars == <<env, pc, opts, cookieSecret, legacyOpts, oauthProxyOpts, port,
              stdout, exitCode, listenAddr, req, trace, serveErr>>
scriptVars == <<ctx, FILES, spc, out>>
vars == <<env, pc, opts, cookieSecret, legacyOpts, oauthProxyOpts, port,
          stdout, exitCode, listenAddr, req, trace, serveErr, ctx, FILES, spc, out>>

(* ---------------- bounds of the explored inputs ---------------- *)
MaxSecretLen == 4
MaxUrlParts == 2
MaxDomLen == 3
MaxUsersLen == 2
MaxPortLen == 2
MaxSegs == 2
MaxFiles == 3

(* ---------------- strings ---------------- *)
RECURSIVE StrsOver(_, _)
StrsOver(A, n) ==
  IF n = 0 THEN {""}
  ELSE LET S == StrsOver(A, n - 1) IN S \cup {s \o c : s \in S, c \in A}

CharAt(s, i) == SubSeq(s, i, i)

\* an environment variable or a *string option: absent, or present with a value
Unset == [set |-> FALSE, val |-> ""]
Some(s) == [set |-> TRUE, val |-> s]
OptOf(S) == {Unset} \cup {Some(s) : s \in S}

\* os.Getenv: the value, or "" when the variable is not set
Getenv(e, name) == e[name].val

\* strings.HasPrefix
HasPrefix(s, prefix) ==
  Len(s) >= Len(prefix) /\ SubSeq(s, 1, Len(prefix)) = prefix

\* strings.IndexByte: first position of the one-character string c, 0 if none
IndexByte(s, c) ==
  IF \E i \in 1..Len(s) : CharAt(s, i) = c
  THEN CHOOSE i \in 1..Len(s) :
         CharAt(s, i) = c /\ \A j \in 1..(i - 1) : CharAt(s, j) # c
  ELSE 0

\* strings.Split(s, sep) for a one-character separator
RECURSIVE Split(_, _)
Split(s, sep) ==
  LET i == IndexByte(s, sep) IN
  IF i = 0 THEN <<s>>
  ELSE <<SubSeq(s, 1, i - 1)>> \o Split(SubSeq(s, i + 1, Len(s)), sep)

(* ---------------- base64.StdEncoding.DecodeString ---------------- *)
encodeStd == "ABCDEFGHIJKLMNOPQRSTUVWXYZabcdefghijklmnopqrstuvwxyz0123456789+/"

\* the 6-bit value of a character, -1 when it is not in the alphabet
B64Val(c) == IndexByte(encodeStd, c) - 1

\* the decoder skips carriage returns and line feeds
RECURSIVE StripNewlines(_)
StripNewlines(s) ==
  IF s = "" THEN ""
  ELSE IF CharAt(s, 1) \in {"\n", "\r"} THEN StripNewlines(Tail(s))
  ELSE CharAt(s, 1) \o StripNewlines(Tail(s))

RECURSIVE DecodeQuanta(_)
DecodeQuanta(s) ==
  IF s = "" THEN [ok |-> TRUE, bytes |-> <<>>]
  ELSE IF Len(s) < 4 THEN [ok |-> FALSE, bytes |-> <<>>]
  ELSE
    LET v1 == B64Val(CharAt(s, 1))
        v2 == B64Val(CharAt(s, 2))
        v3 == B64Val(CharAt(s, 3))
        v4 == B64Val(CharAt(s, 4))
        rest == SubSeq(s, 5, Len(s))
    IN
    IF v1 < 0 \/ v2 < 0 THEN [ok |-> FALSE, bytes |-> <<>>]
    ELSE IF CharAt(s, 3) = "=" THEN
      IF CharAt(s, 4) = "=" /\ rest = ""
      THEN [ok |-> TRUE, bytes |-> <<(v1 * 4 + v2 \div 16) % 256>>]
      ELSE [ok |-> FALSE, bytes |-> <<>>]
    ELSE IF v3 < 0 THEN [ok |-> FALSE, bytes |-> <<>>]
    ELSE IF CharAt(s, 4) = "=" THEN
      IF rest = ""
      THEN [ok |-> TRUE,
            bytes |-> <<(v1 * 4 + v2 \div 16) % 256,
                        ((v2 % 16) * 16 + v3 \div 4) % 256>>]
      ELSE [ok |-> FALSE, bytes |-> <<>>]
    ELSE IF v4 < 0 THEN [ok |-> FALSE, bytes |-> <<>>]
    ELSE
      LET r == DecodeQuanta(rest) IN
      IF r.ok
      THEN [ok |-> TRUE,
            bytes |-> <<(v1 * 4 + v2 \div 16) % 256,
                        ((v2 % 16) * 16 + v3 \div 4) % 256,
                        ((v3 % 4) * 64 + v4) % 256>> \o r.bytes]
      ELSE [ok |-> FALSE, bytes |-> <<>>]

DecodeStringBugAcceptAll(s) ==
  LET r == DecodeQuanta(StripNewlines(s)) IN [ok |-> TRUE, bytes |-> r.bytes]
DecodeString(s) == DecodeQuanta(StripNewlines(s))

(* ---------------- environment and option records ---------------- *)
EnvNames == {"OBOT_GITHUB_AUTH_PROVIDER_CLIENT_ID",
             "OBOT_GITHUB_AUTH_PROVIDER_CLIENT_SECRET",
             "OBOT_SERVER_URL",
             "OBOT_AUTH_PROVIDER_COOKIE_SECRET",
             "OBOT_AUTH_PROVIDER_EMAIL_DOMAINS",
             "OBOT_GITHUB_AUTH_PROVIDER_TEAMS",
             "OBOT_GITHUB_AUTH_PROVIDER_ORG",
             "OBOT_GITHUB_AUTH_PROVIDER_REPO",
             "OBOT_GITHUB_AUTH_PROVIDER_TOKEN",
             "OBOT_GITHUB_AUTH_PROVIDER_ALLOW_USERS",
             "PORT"}

\* the default tag of Options.AuthEmailDomains
AuthEmailDomainsDefault == "*"

\* var opts Options: the zero value
ZeroOptions ==
  [ClientID |-> "", ClientSecret |-> "", ObotServerURL |-> "",
   AuthCookieSecret |-> "", AuthEmailDomains |-> "",
   GitHubTeams |-> Unset, GitHubOrg |-> Unset, GitHubRepo |-> Unset,
   GitHubToken |-> Unset, GitHubAllowUsers |-> Unset]

\* a string field: the variable's value; an unset variable gives the default
\* tag (or ""); whether a variable set to "" gives "" or the default is left
\* open, both are allowed
LoadString(e, name, default) ==
  IF ~e[name].set THEN {default}
  ELSE IF e[name].val = "" THEN {"", default}
  ELSE {e[name].val}

\* an optional *string field: nil when unset, a pointer to the value when set;
\* a variable set to "" may load as nil or as a pointer to ""
LoadPtr(e, name) ==
  IF ~e[name].set THEN {Unset}
  ELSE IF e[name].val = "" THEN {Unset, Some("")}
  ELSE {Some(e[name].val)}

\* env.LoadEnvForStruct(&opts): the possible outcomes for environment e
LoadEnvForStruct(e) ==
  {[err |-> TRUE, opts |-> ZeroOptions]} \cup
  {[err |-> FALSE,
    opts |-> [ClientID |-> Getenv(e, "OBOT_GITHUB_AUTH_PROVIDER_CLIENT_ID"),
              ClientSecret |-> Getenv(e, "OBOT_GITHUB_AUTH_PROVIDER_CLIENT_SECRET"),
              ObotServerURL |-> Getenv(e, "OBOT_SERVER_URL"),
              AuthCookieSecret |-> Getenv(e, "OBOT_AUTH_PROVIDER_COOKIE_SECRET"),
              AuthEmailDomains |-> d,
              GitHubTeams |-> t, GitHubOrg |-> o, GitHubRepo |-> r,
              GitHubToken |-> k, GitHubAllowUsers |-> u]] :
     d \in LoadString(e, "OBOT_AUTH_PROVIDER_EMAIL_DOMAINS", AuthEmailDomainsDefault),
     t \in LoadPtr(e, "OBOT_GITHUB_AUTH_PROVIDER_TEAMS"),
     o \in LoadPtr(e, "OBOT_GITHUB_AUTH_PROVIDER_ORG"),
     r \in LoadPtr(e, "OBOT_GITHUB_AUTH_PROVIDER_REPO"),
     k \in LoadPtr(e, "OBOT_GITHUB_AUTH_PROVIDER_TOKEN"),
     u \in LoadPtr(e, "OBOT_GITHUB_AUTH_PROVIDER_ALLOW_USERS")}

\* options.NewLegacyOptions(): the provider part, with the library's defaults
NewLegacyOptions ==
  [built |-> TRUE, ProviderType |-> "google", ProviderName |-> "",
   ClientID |-> "", ClientSecret |-> "",
   GitHubTeam |-> "", GitHubOrg |-> "", GitHubRepo |-> "", GitHubToken |-> "",
   GitHubUsers |-> <<>>]

NotBuiltLegacy ==
  [built |-> FALSE, ProviderType |-> "", ProviderName |-> "",
   ClientID |-> "", ClientSecret |-> "",
   GitHubTeam |-> "", GitHubOrg |-> "", GitHubRepo |-> "", GitHubToken |-> "",
   GitHubUsers |-> <<>>]

\* seconds in time.Hour
Hour == 3600

\* legacyOpts.ToOptions(): the fields main overwrites, with the library's
\* defaults, and the provider carried over from the legacy options
ToOptions(l) ==
  [built |-> TRUE, BindAddress |-> "127.0.0.1:4180", MetricsBindAddress |-> "",
   CookieRefresh |-> 0, CookieName |-> "_oauth2_proxy", CookieSecret |-> <<>>,
   CookieSecure |-> TRUE, RawRedirectURL |-> "", EmailDomains |-> <<>>,
   Provider |-> l]

NotBuiltOptions ==
  [built |-> FALSE, BindAddress |-> "", MetricsBindAddress |-> "",
   CookieRefresh |-> 0, CookieName |-> "", CookieSecret |-> <<>>,
   CookieSecure |-> FALSE, RawRedirectURL |-> "", EmailDomains |-> <<>>,
   Provider |-> NotBuiltLegacy]

(* ---------------- the explored environments ---------------- *)
SecretAlphabet == {"Q", "=", "!", "\n"}
Secrets == StrsOver(SecretAlphabet, MaxSecretLen)
UrlParts == {"https://", "http://", "HTTPS://", "o", "/"}
Urls == StrsOver(UrlParts, MaxUrlParts)
Domains == StrsOver({"a", "*", ","}, MaxDomLen) \cup {"a.com,b.com"}
Users == StrsOver({"u", ","}, MaxUsersLen)
Ports == StrsOver({"8", "0"}, MaxPortLen)

BaseEnv ==
  [n \in EnvNames |->
     CASE n = "OBOT_GITHUB_AUTH_PROVIDER_CLIENT_ID" -> Some("id")
       [] n = "OBOT_GITHUB_AUTH_PROVIDER_CLIENT_SECRET" -> Some("cs")
       [] n = "OBOT_SERVER_URL" -> Some("https://o")
       [] n = "OBOT_AUTH_PROVIDER_COOKIE_SECRET" -> Some("QQ==")
       [] OTHER -> Unset]

EnvSet ==
  {[BaseEnv EXCEPT !["OBOT_AUTH_PROVIDER_COOKIE_SECRET"] = v] : v \in OptOf(Secrets)}
  \cup {[BaseEnv EXCEPT !["OBOT_SERVER_URL"] = v] : v \in OptOf(Urls)}
  \cup {[BaseEnv EXCEPT !["OBOT_AUTH_PROVIDER_EMAIL_DOMAINS"] = v] : v \in OptOf(Domains)}
  \cup {[BaseEnv EXCEPT !["PORT"] = v] : v \in OptOf(Ports)}
  \cup {[BaseEnv EXCEPT !["OBOT_GITHUB_AUTH_PROVIDER_TEAMS"] = t,
                        !["OBOT_GITHUB_AUTH_PROVIDER_ORG"] = o,
                        !["OBOT_GITHUB_AUTH_PROVIDER_REPO"] = r,
                        !["OBOT_GITHUB_AUTH_PROVIDER_TOKEN"] = k,
                        !["OBOT_GITHUB_AUTH_PROVIDER_ALLOW_USERS"] = u] :
          t \in OptOf({"", "t"}), o \in OptOf({"o"}), r \in OptOf({"o/r"}),
          k \in OptOf({"k"}), u \in OptOf(Users)}

(* ---------------- the statements of main ---------------- *)
\* fmt.Printf of a failure followed by os.Exit(1)
Fatal(msg) ==
  /\ stdout' = Append(stdout, msg)
  /\ exitCode' = 1
  /\ pc' = "exited"

\* lines 54-68: the optional GitHub settings copied onto the legacy provider
GitHubOptionsBugAlwaysCopy(l, o) ==
  [l EXCEPT !.GitHubTeam = o.GitHubTeams.val,
            !.GitHubOrg = o.GitHubOrg.val,
            !.GitHubRepo = o.GitHubRepo.val,
            !.GitHubToken = o.GitHubToken.val,
            !.GitHubUsers = Split(o.GitHubAllowUsers.val, ",")]
GitHubOptions(l, o) ==
  [l EXCEPT !.GitHubTeam = IF o.GitHubTeams.set THEN o.GitHubTeams.val ELSE @,
            !.GitHubOrg = IF o.GitHubOrg.set THEN o.GitHubOrg.val ELSE @,
            !.GitHubRepo = IF o.GitHubRepo.set THEN o.GitHubRepo.val ELSE @,
            !.GitHubToken = IF o.GitHubToken.set THEN o.GitHubToken.val ELSE @,
            !.GitHubUsers = IF o.GitHubAllowUsers.set
                            THEN Split(o.GitHubAllowUsers.val, ",") ELSE @]

\* lines 47-68: the legacy options main builds from opts
LegacyOptions(o) ==
  GitHubOptions([NewLegacyOptions EXCEPT !.ProviderType = "github",
                                         !.ProviderName = "github",
                                         !.ClientID = o.ClientID,
                                         !.ClientSecret = o.ClientSecret], o)

\* line 81
CookieSecureBugAnyHttp(url) == HasPrefix(url, "http")
CookieSecure(url) == HasPrefix(url, "https://")

\* line 82
RedirectURLBugTrimSlash(url) ==
  (IF url # "" /\ CharAt(url, Len(url)) = "/"
   THEN SubSeq(url, 1, Len(url) - 1) ELSE url) \o "/oauth2/callback"
RedirectURL(url) == url \o "/oauth2/callback"

\* lines 83-85: cur is the list ToOptions left in place
EmailDomainsBugNoSplit(cur, domains) ==
  IF domains # "" THEN <<domains>> ELSE cur
EmailDomains(cur, domains) ==
  IF domains # "" THEN Split(domains, ",") ELSE cur

\* lines 76-85
ProxyOptions(p, o, secret) ==
  [p EXCEPT !.BindAddress = "",
            !.MetricsBindAddress = "",
            !.CookieRefresh = Hour,
            !.CookieName = "obot_access_token",
            !.CookieSecret = secret,
            !.CookieSecure = CookieSecure(o.ObotServerURL),
            !.RawRedirectURL = RedirectURL(o.ObotServerURL),
            !.EmailDomains = EmailDomains(@, o.AuthEmailDomains)]

\* lines 98-101
PortOrDefaultBugUnsetOnly(e) ==
  IF ~e["PORT"].set THEN "9999" ELSE e["PORT"].val
PortOrDefault(e) ==
  IF Getenv(e, "PORT") = "" THEN "9999" ELSE Getenv(e, "PORT")

\* line 105: what the handler of "/{$}" writes
RootBody(p) == "http://127.0.0.1:" \o p

\* line 112: the address handed to http.ListenAndServe
ListenAddress(p) == "127.0.0.1:" \o p

\* line 36
LoadOptions ==
  /\ pc = "load"
  /\ \E r \in LoadEnvForStruct(env) :
       IF r.err
       THEN /\ Fatal("failed to load options: ")
            /\ UNCHANGED <<opts, trace>>
       ELSE /\ opts' = r.opts
            /\ pc' = "decode"
            /\ trace' = Append(trace, "load")
            /\ UNCHANGED <<stdout, exitCode>>
  /\ UNCHANGED <<env, cookieSecret, legacyOpts, oauthProxyOpts, port,
                 listenAddr, req, serveErr, scriptVars>>

\* lines 41-45
DecodeCookieSecret ==
  /\ pc = "decode"
  /\ LET r == DecodeString(opts.AuthCookieSecret) IN
       IF ~r.ok
       THEN /\ Fatal("failed to decode cookie secret: ")
            /\ UNCHANGED <<cookieSecret, trace>>
       ELSE /\ cookieSecret' = r.bytes
            /\ pc' = "legacy"
            /\ trace' = Append(trace, "decode")
            /\ UNCHANGED <<stdout, exitCode>>
  /\ UNCHANGED <<env, opts, legacyOpts, oauthProxyOpts, port, listenAddr, req,
                 serveErr, scriptVars>>

\* lines 47-68
BuildLegacyOptions ==
  /\ pc = "legacy"
  /\ legacyOpts' = LegacyOptions(opts)
  /\ pc' = "translate"
  /\ UNCHANGED <<env, opts, cookieSecret, oauthProxyOpts, port, stdout,
                 exitCode, listenAddr, req, trace, serveErr, scriptVars>>

\* lines 70-74: the library may refuse the legacy options
TranslateOptions ==
  /\ pc = "translate"
  /\ \E failed \in BOOLEAN :
       IF failed
       THEN /\ Fatal("failed to convert legacy options to new options: ")
            /\ UNCHANGED <<oauthProxyOpts, trace>>
       ELSE /\ oauthProxyOpts' = ToOptions(legacyOpts)
            /\ pc' = "configure"
            /\ trace' = Append(trace, "translate")
            /\ UNCHANGED <<stdout, exitCode>>
  /\ UNCHANGED <<env, opts, cookieSecret, legacyOpts, port, listenAddr, req,
                 serveErr, scriptVars>>

\* lines 76-85
ConfigureProxyOptions ==
  /\ pc = "configure"
  /\ oauthProxyOpts' = ProxyOptions(oauthProxyOpts, opts, cookieSecret)
  /\ pc' = "validate"
  /\ UNCHANGED <<env, opts, cookieSecret, legacyOpts, port, stdout, exitCode,
                 listenAddr, req, trace, serveErr, scriptVars>>

\* lines 87-90: the library may reject the configuration
ValidateBugIgnoreError ==
  /\ pc = "validate"
  /\ \E failed \in BOOLEAN :
       /\ pc' = "construct"
       /\ trace' = IF failed THEN trace ELSE Append(trace, "validate")
       /\ stdout' = IF failed THEN Append(stdout, "failed to validate options: ")
                    ELSE stdout
  /\ UNCHANGED <<env, opts, cookieSecret, legacyOpts, oauthProxyOpts, port,
                 exitCode, listenAddr, req, serveErr, scriptVars>>
Validate ==
  /\ pc = "validate"
  /\ \E failed \in BOOLEAN :
       IF failed
       THEN /\ Fatal("failed to validate options: ")
            /\ UNCHANGED trace
       ELSE /\ pc' = "construct"
            /\ trace' = Append(trace, "validate")
            /\ UNCHANGED <<stdout, exitCode>>
  /\ UNCHANGED <<env, opts, cookieSecret, legacyOpts, oauthProxyOpts, port,
                 listenAddr, req, serveErr, scriptVars>>

\* lines 92-96: the library may fail to construct the proxy
NewOAuthProxy ==
  /\ pc = "construct"
  /\ \E failed \in BOOLEAN :
       IF failed
       THEN /\ Fatal("failed to create oauth2 proxy: ")
            /\ UNCHANGED trace
       ELSE /\ pc' = "port"
            /\ trace' = Append(trace, "construct")
            /\ UNCHANGED <<stdout, exitCode>>
  /\ UNCHANGED <<env, opts, cookieSecret, legacyOpts, oauthProxyOpts, port,
                 listenAddr, req, serveErr, scriptVars>>

\* lines 98-101
ReadPort ==
  /\ pc = "port"
  /\ port' = PortOrDefault(env)
  /\ pc' = "listen"
  /\ UNCHANGED <<env, opts, cookieSecret, legacyOpts, oauthProxyOpts, stdout,
                 exitCode, listenAddr, req, trace, serveErr, scriptVars>>

\* lines 103-112: the routes are registered, the address is printed and
\* http.ListenAndServe is entered
ListenAndServe ==
  /\ pc = "listen"
  /\ stdout' = Append(stdout, "listening on " \o ListenAddress(port))
  /\ listenAddr' = ListenAddress(port)
  /\ pc' = "serving"
  /\ UNCHANGED <<env, opts, cookieSecret, legacyOpts, oauthProxyOpts, port,
                 exitCode, req, trace, serveErr, scriptVars>>

(* ---------------- http.ServeMux ---------------- *)
HasSuffix(s, suffix) ==
  Len(s) >= Len(suffix) /\ SubSeq(s, Len(s) - Len(suffix) + 1, Len(s)) = suffix

RECURSIVE Join(_, _)
Join(segs, sep) ==
  IF segs = <<>> THEN ""
  ELSE IF Len(segs) = 1 THEN segs[1]
  ELSE segs[1] \o sep \o Join(Tail(segs), sep)

\* path.Clean on the segments of a rooted path: empty and "." segments are
\* dropped, ".." removes the segment before it (and is dropped at the root)
RECURSIVE CleanStack(_, _)
CleanStack(segs, st) ==
  IF segs = <<>> THEN st
  ELSE LET h == Head(segs) IN
       CleanStack(Tail(segs),
                  IF h \in {"", "."} THEN st
                  ELSE IF h = ".."
                       THEN (IF st = <<>> THEN st ELSE SubSeq(st, 1, Len(st) - 1))
                  ELSE Append(st, h))

Clean(p) == "/" \o Join(CleanStack(Split(Tail(p), "/"), <<>>), "/")

\* net/http cleanPath: the canonical path, a trailing slash kept
cleanPath(p) ==
  IF p = "" THEN "/"
  ELSE LET q == IF CharAt(p, 1) # "/" THEN "/" \o p ELSE p
           np == Clean(q)
       IN IF HasSuffix(q, "/") /\ np # "/"
          THEN (IF Len(q) = Len(np) + 1 /\ HasPrefix(q, np) THEN q ELSE np \o "/")
          ELSE np

\* lines 104-109: the registered patterns and their handlers
Routes ==
  {[pattern |-> "/{$}", handler |-> "root"],
   [pattern |-> "/obot-get-state", handler |-> "state"],
   [pattern |-> "/obot-get-icon-url", handler |-> "icon"],
   [pattern |-> "/", handler |-> "proxy"]}

\* a pattern ending in "{$}" matches its prefix exactly, one ending in "/"
\* matches every path below it, any other pattern matches itself alone
PatternMatches(pat, path) ==
  IF HasSuffix(pat, "{$}") THEN path = SubSeq(pat, 1, Len(pat) - 3)
  ELSE IF HasSuffix(pat, "/") THEN HasPrefix(path, pat)
  ELSE path = pat

IsSubtree(pat) == HasSuffix(pat, "/") /\ ~HasSuffix(pat, "{$}")

\* pattern a is more specific than b: a matches fewer paths
MoreSpecific(a, b) ==
  \/ ~IsSubtree(a) /\ IsSubtree(b)
  \/ IsSubtree(a) /\ IsSubtree(b) /\ Len(a) > Len(b)

\* the handler the mux picks for a path already cleaned
MatchBugLeastSpecific(path) ==
  LET hits == {r \in Routes : PatternMatches(r.pattern, path)} IN
  IF hits = {} THEN "notfound"
  ELSE (CHOOSE r \in hits :
          \A o \in hits \ {r} : MoreSpecific(o.pattern, r.pattern)).handler
Match(path) ==
  LET hits == {r \in Routes : PatternMatches(r.pattern, path)} IN
  IF hits = {} THEN "notfound"
  ELSE (CHOOSE r \in hits :
          \A o \in hits \ {r} : MoreSpecific(r.pattern, o.pattern)).handler

NoRequest == [path |-> "", handler |-> "none", status |-> 0, body |-> "",
              location |-> ""]

\* mux.ServeHTTP for a request that is not CONNECT: a path that is not in
\* canonical form is answered by the mux with a permanent redirect to the
\* cleaned path; otherwise the matched handler runs
ServeHTTP(path, p) ==
  LET np == cleanPath(path)
      h == Match(np)
  IN IF np # path
     THEN [path |-> path, handler |-> "redirect", status |-> 301, body |-> "",
           location |-> np]
     ELSE IF h = "root"
     THEN [path |-> path, handler |-> h, status |-> 200, body |-> RootBody(p),
           location |-> ""]
     ELSE [path |-> path, handler |-> h, status |-> 0, body |-> "",
           location |-> ""]

SegAlphabet == {"", "..", "obot-get-state", "obot-get-icon-url", "oauth2",
                "callback"}
RequestPaths ==
  {"/" \o Join(segs, "/") :
     segs \in UNION {[1..k -> SegAlphabet] : k \in 1..MaxSegs}}

\* a request arrives while the listener serves and is answered
HandleRequest ==
  /\ pc = "serving"
  /\ req = NoRequest
  /\ \E path \in RequestPaths : req' = ServeHTTP(path, port)
  /\ UNCHANGED <<env, pc, opts, cookieSecret, legacyOpts, oauthProxyOpts, port,
                 stdout, exitCode, listenAddr, trace, serveErr, scriptVars>>

FinishRequest ==
  /\ pc = "serving"
  /\ req # NoRequest
  /\ req' = NoRequest
  /\ UNCHANGED <<env, pc, opts, cookieSecret, legacyOpts, oauthProxyOpts, port,
                 stdout, exitCode, listenAddr, trace, serveErr, scriptVars>>

\* lines 112-116: http.ListenAndServe returns, always with an error; the
\* process ends either way, and a request still in flight ends with it
ServeReturnsBugExitAlways ==
  /\ pc = "serving"
  /\ \E err \in {"ErrServerClosed", "other"} :
       /\ serveErr' = err
       /\ Fatal("failed to listen and serve: ")
  /\ req' = NoRequest
  /\ UNCHANGED <<env, opts, cookieSecret, legacyOpts, oauthProxyOpts, port,
                 listenAddr, trace, scriptVars>>
ServeReturns ==
  /\ pc = "serving"
  /\ \E err \in {"ErrServerClosed", "other"} :
       /\ serveErr' = err
       /\ IF err # "ErrServerClosed"
          THEN Fatal("failed to listen and serve: ")
          ELSE /\ pc' = "returned"
               /\ exitCode' = 0
               /\ UNCHANGED stdout
  /\ req' = NoRequest
  /\ UNCHANGED <<env, opts, cookieSecret, legacyOpts, oauthProxyOpts, port,
                 listenAddr, trace, scriptVars>>

(* ---------------- the "Workspace Files" script ---------------- *)
Sentinel == "No files found in workspace"

StartMarker == "# START INSTRUCTIONS: \"Workspace Files\"\n"
EndMarker == "# END INSTRUCTIONS: \"Workspace Files\"\n"
Instructions ==
  "\nYou have the ability to read, write, and copy files in a workspace which is specific to your user. Use the given\n"
  \o "workspace_read, workspace_write, and workspace_copy tools to interact with files. The files that you write are available for the user\n"
  \o "to read and write in their user interface. You can collaborate with the user by reading and writing these files.\n"
  \o "Do not ask first to create files in the workspace. Immediately write contents to the workspace as opposed to describing\n"
  \o "the contents to the user. If the user changes a file, they will inform you that content has changed, with the new\n"
  \o "contents of the file. The current files are available in the workspace for you to read if needed.\n\n"

\* lines 134-146: the here-document with $FILES expanded once
RenderBugAlwaysSentinel(files) ==
  StartMarker \o Instructions \o Sentinel \o "\n" \o EndMarker
Render(files) == StartMarker \o Instructions \o files \o "\n" \o EndMarker

Listings == StrsOver({"a.txt\n", "b.md", Sentinel}, MaxFiles)

\* line 129: FILES="$GPTSCRIPT_CONTEXT"
ScriptAssign ==
  /\ spc = "assign"
  /\ FILES' = ctx.val
  /\ spc' = "test"
  /\ UNCHANGED <<ctx, out, mainVars>>

\* lines 130-132, [ -z "$FILES" ] holds
ScriptFallback ==
  /\ spc = "test"
  /\ FILES = ""
  /\ FILES' = Sentinel
  /\ spc' = "cat"
  /\ UNCHANGED <<ctx, out, mainVars>>

\* lines 130-132, [ -z "$FILES" ] fails
ScriptSkipFallback ==
  /\ spc = "test"
  /\ FILES # ""
  /\ spc' = "cat"
  /\ UNCHANGED <<ctx, FILES, out, mainVars>>

\* lines 134-146
ScriptCat ==
  /\ spc = "cat"
  /\ out' = Render(FILES)
  /\ spc' = "done"
  /\ UNCHANGED <<ctx, FILES, mainVars>>

(* ---------------- specifications ---------------- *)
InitMain ==
  /\ pc = "load"
  /\ opts = ZeroOptions
  /\ cookieSecret = <<>>
  /\ legacyOpts = NotBuiltLegacy
  /\ oauthProxyOpts = NotBuiltOptions
  /\ port = ""
  /\ stdout = <<>>
  /\ exitCode = -1
  /\ listenAddr = ""
  /\ req = NoRequest
  /\ trace = <<>>
  /\ serveErr = ""

InitScript ==
  /\ FILES = ""
  /\ spc = "assign"
  /\ out = ""

\* the auth provider started in any of the explored environments
Init ==
  /\ env \in EnvSet
  /\ InitMain
  /\ ctx = Unset
  /\ InitScript

Next ==
  \/ LoadOptions
  \/ DecodeCookieSecret
  \/ BuildLegacyOptions
  \/ TranslateOptions
  \/ ConfigureProxyOptions
  \/ Validate
  \/ NewOAuthProxy
  \/ ReadPort
  \/ ListenAndServe
  \/ HandleRequest
  \/ FinishRequest
  \/ ServeReturns

Spec == Init /\ [][Next]_vars

\* the instruction script started with any of the explored listings
ScriptInit ==
  /\ env = BaseEnv
  /\ InitMain
  /\ ctx \in OptOf(Listings)
  /\ InitScript

ScriptNext ==
  \/ ScriptAssign
  \/ ScriptFallback
  \/ ScriptSkipFallback
  \/ ScriptCat

ScriptSpec == ScriptInit /\ [][ScriptNext]_vars

(* ---------------- properties ---------------- *)
SetupOrder == <<"load", "decode", "translate", "validate", "construct">>

SetupMessage ==
  <<"failed to load options: ",
    "failed to decode cookie secret: ",
    "failed to convert legacy options to new options: ",
    "failed to validate options: ",
    "failed to create oauth2 proxy: ">>

IsPrefixOf(a, b) == Len(a) <= Len(b) /\ a = SubSeq(b, 1, Len(a))

\* the proxy configuration has been through lines 76-85
Configured == oauthProxyOpts.CookieName = "obot_access_token"

\* C1: startup is fail-fast. The setup steps succeed in the order load, decode,
\* translate, validate, construct; the statements after construction (port,
\* listen, serve) are reached, and a listener is started, only when all five
\* have succeeded; and a process that exited during setup exited with status 1,
\* printed exactly the message of the step that failed, and never started a
\* listener.
StartupFailFast ==
  /\ IsPrefixOf(trace, SetupOrder)
  /\ (pc \in {"port", "listen", "serving", "returned"} \/ listenAddr # ""
        => trace = SetupOrder)
  /\ (pc \in {"legacy", "translate"} => trace = SubSeq(SetupOrder, 1, 2))
  /\ (pc \in {"configure", "validate"} => trace = SubSeq(SetupOrder, 1, 3))
  /\ (pc = "construct" => trace = SubSeq(SetupOrder, 1, 4))
  /\ (exitCode = 1 <=> pc = "exited")
  /\ (pc = "exited" /\ serveErr = ""
        => /\ trace # SetupOrder
           /\ listenAddr = ""
           /\ stdout = <<SetupMessage[Len(trace) + 1]>>)
  /\ (pc # "exited" /\ listenAddr = "" => stdout = <<>>)

StartupFailFastWitness ==
  /\ pc = "exited"
  /\ trace = <<"load", "decode", "translate">>
  /\ stdout = <<"failed to validate options: ">>
  /\ listenAddr = ""

\* standard padded base64 (RFC 4648 alphabet), carriage returns and line feeds
\* ignored: a multiple of four characters, all of the alphabet except for at
\* most two "=" that end the string
StdAlphabet == {CharAt(encodeStd, i) : i \in 1..Len(encodeStd)}
InStdAlphabet(c) == c \in StdAlphabet
IsStdBase64(s) ==
  LET t == StripNewlines(s) IN
  /\ Len(t) % 4 = 0
  /\ \E pad \in 0..2 :
       /\ pad <= Len(t)
       /\ \A i \in 1..(Len(t) - pad) : InStdAlphabet(CharAt(t, i))
       /\ \A i \in (Len(t) - pad + 1)..Len(t) : CharAt(t, i) = "="

\* C2: once the options are loaded and the decode step has run, startup is
\* past the decode step if the cookie secret is valid base64, and otherwise the
\* process has exited with status 1 and the decode message, with no legacy
\* options built, nothing translated and nothing validated.
CookieSecretDecodeGate ==
  (Len(trace) >= 1 /\ pc # "decode")
    => IF IsStdBase64(opts.AuthCookieSecret)
       THEN Len(trace) >= 2 /\ trace[2] = "decode"
       ELSE /\ pc = "exited"
            /\ exitCode = 1
            /\ trace = <<"load">>
            /\ stdout = <<"failed to decode cookie secret: ">>
            /\ legacyOpts = NotBuiltLegacy
            /\ oauthProxyOpts = NotBuiltOptions

CookieSecretDecodeGateWitness ==
  /\ pc = "exited"
  /\ trace = <<"load">>
  /\ opts.AuthCookieSecret = "Q==="
  /\ stdout = <<"failed to decode cookie secret: ">>

EmailDomainsVar == "OBOT_AUTH_PROVIDER_EMAIL_DOMAINS"

NoComma(s) == \A i \in 1..Len(s) : CharAt(s, i) # ","

\* C3 as stated: with the variable unset or empty the library default (no
\* list) is left in place, and a non-empty value gives exactly its
\* comma-separated elements.
EmailDomainsUnsetLeavesLibraryDefault ==
  Configured
    => /\ (Getenv(env, EmailDomainsVar) = ""
             => oauthProxyOpts.EmailDomains = ToOptions(legacyOpts).EmailDomains)
       /\ (Getenv(env, EmailDomainsVar) # ""
             => Join(oauthProxyOpts.EmailDomains, ",") = Getenv(env, EmailDomainsVar))

\* C3 amended: the library default is left in place exactly when the loaded
\* option is empty; an unset variable loads the default "*", so the list is
\* exactly <<"*">>; a non-empty value gives exactly its comma-separated
\* elements, "a.com,b.com" giving <<"a.com", "b.com">>.
EmailDomainsFollowLoadedOption ==
  Configured
    => LET d == oauthProxyOpts.EmailDomains
           v == Getenv(env, EmailDomainsVar)
       IN /\ (opts.AuthEmailDomains = "" <=> d = ToOptions(legacyOpts).EmailDomains)
          /\ (opts.AuthEmailDomains # ""
                => /\ Join(d, ",") = opts.AuthEmailDomains
                   /\ \A i \in 1..Len(d) : NoComma(d[i]))
          /\ (~env[EmailDomainsVar].set => d = <<"*">>)
          /\ (v # "" => opts.AuthEmailDomains = v)
          /\ (v = "a.com,b.com" => d = <<"a.com", "b.com">>)

EmailDomainsFollowLoadedOptionWitness ==
  /\ pc = "validate"
  /\ ~env[EmailDomainsVar].set
  /\ oauthProxyOpts.EmailDomains = <<"*">>

\* C4: in the configuration that reaches validation the redirect URL is the
\* server URL, unchanged, followed by "/oauth2/callback" and nothing else.
RedirectIsServerUrlPlusCallback ==
  Configured
    => LET u == Getenv(env, "OBOT_SERVER_URL")
           r == oauthProxyOpts.RawRedirectURL
       IN /\ opts.ObotServerURL = u
          /\ Len(r) = Len(u) + Len("/oauth2/callback")
          /\ HasPrefix(r, u)
          /\ HasSuffix(r, "/oauth2/callback")

RedirectIsServerUrlPlusCallbackWitness ==
  /\ pc = "validate"
  /\ opts.ObotServerURL = "https:///"
  /\ oauthProxyOpts.RawRedirectURL = "https:////oauth2/callback"

\* C5: in the configuration that reaches validation the secure-cookie flag is
\* true exactly when the first eight characters of the server URL are
\* "https://", compared case-sensitively.
SecureIffHttpsPrefix ==
  Configured
    => LET u == Getenv(env, "OBOT_SERVER_URL") IN
       /\ opts.ObotServerURL = u
       /\ (oauthProxyOpts.CookieSecure
             <=> /\ Len(u) >= 8
                 /\ \A i \in 1..8 : CharAt(u, i) = CharAt("https://", i))

SecureIffHttpsPrefixWitness ==
  /\ pc = "validate"
  /\ opts.ObotServerURL = "HTTPS://o"
  /\ ~oauthProxyOpts.CookieSecure

\* C6: the port is PORT, or "9999" when PORT is unset or empty; the address
\* handed to the listener is 127.0.0.1:<port>; and the request for exactly
\* "/" is answered with exactly "http://" followed by that same address.
AdvertisedAddressIsBoundAddress ==
  /\ (pc \in {"listen", "serving", "returned"} \/ listenAddr # ""
        => port = (IF ~env["PORT"].set \/ env["PORT"].val = ""
                   THEN "9999" ELSE env["PORT"].val))
  /\ (listenAddr # "" => listenAddr = "127.0.0.1:" \o port)
  /\ (req.path = "/" => req.handler = "root")
  /\ (req.handler = "root"
        => /\ req.path = "/"
           /\ req.body = "http://" \o listenAddr
           /\ HasSuffix(req.body, ":" \o port))

AdvertisedAddressIsBoundAddressWitness ==
  /\ pc = "serving"
  /\ env["PORT"] = Some("")
  /\ listenAddr = "127.0.0.1:9999"
  /\ req.handler = "root"
  /\ req.body = "http://127.0.0.1:9999"

FourHandlers == {"root", "state", "icon", "proxy"}

\* the four-way routing by path
RoutedByPath(r) ==
  /\ r.handler \in FourHandlers
  /\ (r.handler = "root" <=> r.path = "/")
  /\ (r.handler = "state" <=> r.path = "/obot-get-state")
  /\ (r.handler = "icon" <=> r.path = "/obot-get-icon-url")
  /\ (r.handler = "proxy"
        <=> r.path \notin {"/", "/obot-get-state", "/obot-get-icon-url"})

IsCanonicalPath(p) ==
  /\ p # ""
  /\ CharAt(p, 1) = "/"
  /\ LET segs == Split(Tail(p), "/") IN
       \A i \in 1..Len(segs) :
         /\ segs[i] \notin {".", ".."}
         /\ (segs[i] = "" => i = Len(segs))

RenderEmbedsListingOrSentinel ==
  spc = "done"
    => LET head == StartMarker \o Instructions
           tail == "\n" \o EndMarker
           mid == SubSeq(out, Len(head) + 1, Len(out) - Len(tail))
       IN /\ Len(out) >= Len(head) + Len(tail)
          /\ HasPrefix(out, head)
          /\ HasSuffix(out, tail)
          /\ (ctx.val = "" => mid = "No files found in workspace")
          /\ (ctx.val # "" => mid = ctx.val /\ FILES = ctx.val)

RenderEmbedsListingOrSentinelWitness ==
  /\ spc = "done"
  /\ ctx = Some("a.txt\nb.md")
  /\ out = StartMarker \o Instructions \o "a.txt\nb.md\n" \o EndMarker

CountOf(seq, P(_)) == Cardinality({i \in 1..Len(seq) : P(seq[i])})
IsListening(line) == HasPrefix(line, "listening on ")

\* C9: once ListenAndServe has returned, the process has exited with status 1
\* and the serve failure message exactly when the error is not
\* http.ErrServerClosed; on http.ErrServerClosed main has returned with no
\* failure message and status 0; either way main is over and the listener was
\* entered once.
ServeErrorFatalUnlessClosed ==
  /\ CountOf(stdout, IsListening) <= 1
  /\ (serveErr # ""
        => /\ pc \in {"exited", "returned"}
           /\ CountOf(stdout, IsListening) = 1
           /\ (serveErr # "ErrServerClosed"
                 <=> /\ pc = "exited"
                     /\ exitCode = 1
                     /\ stdout[Len(stdout)] = "failed to listen and serve: ")
           /\ (serveErr = "ErrServerClosed"
                 <=> /\ pc = "returned"
                     /\ exitCode = 0
                     /\ Len(stdout) = 1))
  /\ (pc = "returned" => serveErr = "ErrServerClosed")

ServeErrorFatalUnlessClosedWitness ==
  /\ pc = "returned"
  /\ serveErr = "ErrServerClosed"
  /\ exitCode = 0

\* C10: in the legacy options main has built, provider type and name are
\* "github"; each of team, org, repo and token holds the option's value when
\* the option is present and the library default otherwise; the users list is
\* the library default when the allow-users option is absent and otherwise the
\* option's value cut at its commas, a present empty value giving <<"">>.
GitHubOptionsTranslated ==
  legacyOpts.built
    => LET l == legacyOpts
           d == NewLegacyOptions
           u == opts.GitHubAllowUsers
       IN /\ l.ProviderType = "github"
          /\ l.ProviderName = "github"
          /\ l.GitHubTeam = (IF opts.GitHubTeams.set THEN opts.GitHubTeams.val
                             ELSE d.GitHubTeam)
          /\ l.GitHubOrg = (IF opts.GitHubOrg.set THEN opts.GitHubOrg.val
                            ELSE d.GitHubOrg)
          /\ l.GitHubRepo = (IF opts.GitHubRepo.set THEN opts.GitHubRepo.val
                             ELSE d.GitHubRepo)
          /\ l.GitHubToken = (IF opts.GitHubToken.set THEN opts.GitHubToken.val
                              ELSE d.GitHubToken)
          /\ (~u.set => l.GitHubUsers = d.GitHubUsers)
          /\ (u.set => /\ Len(l.GitHubUsers) >= 1
                       /\ Join(l.GitHubUsers, ",") = u.val
                       /\ \A i \in 1..Len(l.GitHubUsers) : NoComma(l.GitHubUsers[i]))
          /\ (u = Some("") => l.GitHubUsers = <<"">>)
          /\ (env["OBOT_GITHUB_AUTH_PROVIDER_ALLOW_USERS"].val # ""
                => u = env["OBOT_GITHUB_AUTH_PROVIDER_ALLOW_USERS"])
          /\ (~env["OBOT_GITHUB_AUTH_PROVIDER_ALLOW_USERS"].set => ~u.set)

GitHubOptionsTranslatedWitness ==
  /\ pc = "translate"
  /\ opts.GitHubAllowUsers = Some("u,")
  /\ legacyOpts.GitHubUsers = <<"u", "">>
  /\ ~opts.GitHubOrg.set
  /\ opts.GitHubTeams = Some("t")

====
